---------------------------- MODULE Spec2Model ----------------------------
(***************************************************************************)
(* A model of the logging facility of src/log.h and src/log.cpp: the       *)
(* LogSys singleton, the Logger level gate, and the three sinks            *)
(* StdErrLogger, FileLogger and RollingFileLogger.                         *)
(*                                                                         *)
(* Strings are sequences of one-character strings.  An object is a record  *)
(* of its data members, under the members' source names.  The file system, *)
(* the table of open file handles and the standard error stream form the   *)
(* "world" record that the methods read and return.                        *)
(***************************************************************************)
EXTENDS Integers, Sequences, FiniteSets, TLC

VARIABLES
    s_pLogSys,   \* LogSys::s_pLogSys: NULL or the installed LogSys object
    m_pLogger,   \* the sink under study when it is used directly (Logger API)
    disk,        \* file name -> sequence of messages that reached the file
    handles,     \* the process's open file handles, each the name of its file
    errout,      \* the messages the StdErr sink wrote to standard error
    now,         \* the local calendar date of the system clock
    ticks,       \* how many times the clock was advanced
    last,        \* the last operation: its name, arguments and result
    pc,          \* per thread: its position inside Logger::log / close
    arg,         \* per thread: the message of its emit, the value it read
                 \* of m_NotFlushedNum, and what its last emit returned
    m_Mutex,     \* the owner (or NoThread) of the m_Mutex of the sink and of
                 \* the m_Mutex of a Rolling sink's inner FileLogger
    writing,     \* the threads whose "m_File << msg" is in progress
    rotations    \* the rotations performed: the date each read, and how its
                 \* open() ended

vars == <<s_pLogSys, m_pLogger, disk, handles, errout, now, ticks, last,
          pc, arg, m_Mutex, writing, rotations>>

----------------------------------------------------------------------------
(* Enumerations of log.h *)

TO_STDERR == 0
TO_FILE == 1
TO_ROLLING_FILE == 2
TO_MAX == 3

LOG_LEVEL_DEBUG == 0
LOG_LEVEL_INFO == 1
LOG_LEVEL_WARNING == 2
LOG_LEVEL_ERROR == 3
LOG_LEVEL_MAX == 4

LOG_DEFAULT_LOGLEVEL == LOG_LEVEL_INFO
LOG_DEFAULT_FLUSH_NUM == 1
LOG_DEFAULT_FILE_PATH == <<"/", "t", "m", "p", "/", "l", "o", "g">>
LOG_DEFAULT_FILE_BASENAME == <<"l", "o", "g">>
LOG_DEFAULT_FILE_SUFFIX == <<>>

\* A null shared_ptr.  A record, so that it compares with object records.
NULL == [type |-> "NULL"]

----------------------------------------------------------------------------
(* Bounds of the model *)

\* how many times the clock is advanced in one behaviour of Spec
MaxTicks == 2
\* how many times the clock is advanced in one behaviour of SpecSys
MaxSysTicks == 1
\* how many times the clock is advanced in one behaviour of SpecMT
MaxMTTicks == 1
\* how many emits the threads of SpecMT begin in one behaviour
MaxEmits == 3
\* how many messages are written (to files and standard error) in one behaviour
MaxLog == 2
\* the emitting threads of the concurrent specification
NumThreads == 2

----------------------------------------------------------------------------
(* The calendar behind time() and localtime_r() *)

IsLeap(y) == (y % 4 = 0 /\ y % 100 # 0) \/ y % 400 = 0

DaysInMonth(y, m) ==
    IF m = 2 THEN (IF IsLeap(y) THEN 29 ELSE 28)
    ELSE IF m \in {4, 6, 9, 11} THEN 30 ELSE 31

\* the date n days after date d
RECURSIVE AddDays(_, _)
AddDays(d, n) ==
    IF d.mday + n <= DaysInMonth(d.year, d.mon)
    THEN [d EXCEPT !.mday = d.mday + n]
    ELSE AddDays([year |-> IF d.mon = 12 THEN d.year + 1 ELSE d.year,
                  mon  |-> IF d.mon = 12 THEN 1 ELSE d.mon + 1,
                  mday |-> 1],
                 n - (DaysInMonth(d.year, d.mon) - d.mday) - 1)

\* the date at which every behaviour starts
StartDate == [year |-> 2023, mon |-> 12, mday |-> 31]

\* the steps by which the clock advances between two operations, in days:
\* to the next day, by 31 days, by 366 days
Jumps == {1, 31, 366}

\* RollingFileLogger::getCurrentDate: the struct tm of the clock's date
getCurrentDate(clock) ==
    [tm_year |-> clock.year - 1900, tm_mon |-> clock.mon - 1,
     tm_mday |-> clock.mday]

\* the values an uninitialized struct tm may hold, as far as the code reads
\* it: a day of month equal to the clock's, or not a day of any month
UninitTm(clock) ==
    {getCurrentDate(clock), [tm_year |-> 0, tm_mon |-> 0, tm_mday |-> 0]}

----------------------------------------------------------------------------
(* Formatting: operator<< of an int into an ostringstream *)

DigitChar(n) == <<"0", "1", "2", "3", "4", "5", "6", "7", "8", "9">>[n + 1]

RECURSIVE Digits(_)
Digits(n) == IF n < 10 THEN <<DigitChar(n)>>
             ELSE Digits(n \div 10) \o <<DigitChar(n % 10)>>

\* setw(2) << setfill('0') << n
Pad2(n) == IF Len(Digits(n)) < 2 THEN <<"0">> \o Digits(n) ELSE Digits(n)

\* RollingFileLogger::getFileNameByDate without setw and setfill
getFileNameByDate_nopad(base, date) ==
    base \o <<"-">> \o Digits(date.tm_year + 1900) \o <<"-">>
         \o Digits(date.tm_mon + 1) \o <<"-">> \o Digits(date.tm_mday)

\* RollingFileLogger::getFileNameByDate
getFileNameByDate(base, date) ==
    base \o <<"-">> \o Digits(date.tm_year + 1900) \o <<"-">>
         \o Pad2(date.tm_mon + 1) \o <<"-">> \o Pad2(date.tm_mday)

----------------------------------------------------------------------------
(* LogConfig: the parsed key/value view (log_config.h) *)

TEXT_LOG_DESTINATION == "log_dest"
TEXT_LOG_LEVEL == "log_level"
TEXT_LOG_FILE_PATH == "file_path"
TEXT_LOG_FILE_BASE_NAME == "file_base_name"
TEXT_LOG_FILE_SUFFIX == "file_suffix"
TEXT_LOG_FLUSH_NUM == "num_logs_to_flush"

\* getUnsigned(key, out): out becomes the value when the key exists (and
\* parses as an unsigned number), and stays as it was otherwise
getUnsigned(conf, key, out) == IF key \in DOMAIN conf THEN conf[key] ELSE out

\* getString(key, out)
getString(conf, key, out) == IF key \in DOMAIN conf THEN conf[key] ELSE out

\* a configuration with no key
EmptyConf == [k \in {} |-> 0]

\* the sink options that configurations set
SinkConfs ==
    { EmptyConf,
      (TEXT_LOG_LEVEL :> 2) @@ (TEXT_LOG_FLUSH_NUM :> 2)
         @@ (TEXT_LOG_FILE_PATH :> <<"/", "t">>)
         @@ (TEXT_LOG_FILE_BASE_NAME :> <<"a", "p", "p">>)
         @@ (TEXT_LOG_FILE_SUFFIX :> <<"t", "x", "t">>),
      (TEXT_LOG_LEVEL :> 5) @@ (TEXT_LOG_FLUSH_NUM :> 0)
         @@ (TEXT_LOG_FILE_SUFFIX :> <<".", "t">>) }


----------------------------------------------------------------------------
(* The world: files, open handles, standard error *)

World == [disk |-> disk, handles |-> handles, errout |-> errout]

\* disk maps the name of a file to the messages that reached it; a file that
\* no message reached (missing, or empty) is not in its domain
Content(d, f) == IF f \in DOMAIN d THEN d[f] ELSE <<>>

\* content c appended to file f
DiskAppend(d, f, c) ==
    IF c = <<>> THEN d
    ELSE IF f \in DOMAIN d THEN [d EXCEPT ![f] = @ \o c] ELSE d @@ (f :> c)

\* sequence s without its first element equal to x
RECURSIVE RemoveOne(_, _)
RemoveOne(s, x) ==
    IF s = <<>> THEN <<>>
    ELSE IF Head(s) = x THEN Tail(s) ELSE <<Head(s)>> \o RemoveOne(Tail(s), x)

\* std::fstream, default-constructed: no file, no buffered output, good()
NewStream ==
    [is_open |-> FALSE, fd |-> <<>>, buf |-> <<>>,
     failbit |-> FALSE, badbit |-> FALSE]

\* fstream::flush: the buffered output reaches the file
StreamFlush(f, w) ==
    [file |-> [f EXCEPT !.buf = <<>>],
     w    |-> IF f.is_open
              THEN [w EXCEPT !.disk = DiskAppend(w.disk, f.fd, f.buf)]
              ELSE w]

\* fstream::close: what is buffered is written, the handle is released
StreamClose(f, w) ==
    LET fl == StreamFlush(f, w) IN
    [file |-> [fl.file EXCEPT !.is_open = FALSE, !.fd = <<>>],
     w    |-> [fl.w EXCEPT !.handles = RemoveOne(fl.w.handles, f.fd)]]

\* fstream::open(name, out | app): fails on a stream that is open already
\* and when the system refuses (ok = FALSE); a success clears the stream's
\* error state.  The mode is append: what the file holds stays.
StreamOpen(f, w, name, ok) ==
    IF f.is_open \/ ~ok
    THEN [file |-> [f EXCEPT !.failbit = TRUE], w |-> w]
    ELSE [file |-> [f EXCEPT !.is_open = TRUE, !.fd = name,
                             !.failbit = FALSE, !.badbit = FALSE],
          w    |-> [w EXCEPT !.handles = Append(w.handles, name)]]

\* operator<<(m_File, msg): nothing is inserted into a stream that is not
\* good(); an insertion that fails (ioerr, or no file is open) sets badbit
StreamInsert(f, msg, ioerr) ==
    IF f.failbit \/ f.badbit THEN f
    ELSE IF ioerr \/ ~f.is_open THEN [f EXCEPT !.badbit = TRUE]
    ELSE [f EXCEPT !.buf = Append(f.buf, msg)]

----------------------------------------------------------------------------
(* class Logger *)

\* Logger::config
Logger_config(this, conf) ==
    LET num == getUnsigned(conf, TEXT_LOG_LEVEL, 0)
        lvl == IF TEXT_LOG_LEVEL \in DOMAIN conf /\ num < LOG_LEVEL_MAX
               THEN num ELSE this.m_Level
    IN [this EXCEPT !.m_Level = lvl,
                    !.m_MaxFlushNum =
                        getUnsigned(conf, TEXT_LOG_FLUSH_NUM, this.m_MaxFlushNum)]

\* Logger::getLevel
getLevel(this) == this.m_Level

\* Logger::setLevel without its test for an invalid level
Logger_setLevel_nocheck(this, level) == [this EXCEPT !.m_Level = level]

\* Logger::setLevel
Logger_setLevel(this, level) ==
    IF level >= LOG_LEVEL_MAX THEN this
    ELSE IF this.m_Level # level THEN [this EXCEPT !.m_Level = level]
    ELSE this

----------------------------------------------------------------------------
(* class StdErrLogger *)

\* StdErrLogger::StdErrLogger
StdErrLogger_new ==
    [type |-> "StdErrLogger", m_Level |-> LOG_DEFAULT_LOGLEVEL,
     m_MaxFlushNum |-> LOG_DEFAULT_FLUSH_NUM, m_NotFlushedNum |-> 0]

\* StdErrLogger::logImpl
StdErrLogger_logImpl(this, w, msg) ==
    [this |-> this, w |-> [w EXCEPT !.errout = Append(w.errout, msg)],
     ret |-> TRUE]

----------------------------------------------------------------------------
(* class FileLogger *)

\* FileLogger::FileLogger(path, base_name, suffix, level, flush_num, thread_safe)
FileLogger_new(path, base_name, suffix, level, flush_num, thread_safe) ==
    [type |-> "FileLogger", m_Level |-> level, m_MaxFlushNum |-> flush_num,
     m_NotFlushedNum |-> 0, m_FilePath |-> path, m_FileBaseName |-> base_name,
     m_FileSuffix |-> suffix, m_IsThreadSafe |-> thread_safe,
     m_File |-> NewStream]

\* a default FileLogger that takes no lock
FileLogger_default_unsafe ==
    FileLogger_new(LOG_DEFAULT_FILE_PATH, LOG_DEFAULT_FILE_BASENAME,
                   LOG_DEFAULT_FILE_SUFFIX, LOG_DEFAULT_LOGLEVEL,
                   LOG_DEFAULT_FLUSH_NUM, FALSE)

\* FileLogger::FileLogger(): the defaults
FileLogger_default ==
    FileLogger_new(LOG_DEFAULT_FILE_PATH, LOG_DEFAULT_FILE_BASENAME,
                   LOG_DEFAULT_FILE_SUFFIX, LOG_DEFAULT_LOGLEVEL,
                   LOG_DEFAULT_FLUSH_NUM, TRUE)

\* FileLogger::config
FileLogger_config(this, conf) ==
    LET b == Logger_config(this, conf) IN
    [b EXCEPT !.m_FilePath = getString(conf, TEXT_LOG_FILE_PATH, b.m_FilePath),
              !.m_FileBaseName =
                  getString(conf, TEXT_LOG_FILE_BASE_NAME, b.m_FileBaseName),
              !.m_FileSuffix =
                  getString(conf, TEXT_LOG_FILE_SUFFIX, b.m_FileSuffix)]

\* FileLogger::getFullFileName
getFullFileName(this) ==
    LET p  == this.m_FilePath
        d  == IF p # <<>>
              THEN (IF p[Len(p)] # "/" THEN p \o <<"/">> ELSE p)
              ELSE <<>>
        n  == d \o this.m_FileBaseName
        sx == this.m_FileSuffix
    IN IF sx # <<>>
       THEN (IF sx[1] = "." THEN n \o sx ELSE n \o <<".">> \o sx)
       ELSE n

\* a close that releases the handle and drops what the stream buffers
FileLogger_close_drop(this, w) ==
    IF this.m_File.is_open
    THEN [this |-> [this EXCEPT !.m_File.is_open = FALSE, !.m_File.fd = <<>>,
                                !.m_File.buf = <<>>],
          w |-> [w EXCEPT !.handles = RemoveOne(w.handles, this.m_File.fd)],
          ret |-> TRUE]
    ELSE [this |-> this, w |-> w, ret |-> TRUE]

\* FileLogger::close
FileLogger_close(this, w) ==
    IF this.m_File.is_open
    THEN LET c == StreamClose(this.m_File, w) IN
         [this |-> [this EXCEPT !.m_File = c.file], w |-> c.w, ret |-> TRUE]
    ELSE [this |-> this, w |-> w, ret |-> TRUE]

\* a destructor of FileLogger that does not close the file
FileLogger_delete_leak(this, w) == w

\* FileLogger::~FileLogger
FileLogger_delete(this, w) == FileLogger_close(this, w).w

\* FileLogger::open with a mode that truncates the file
FileLogger_open_trunc(this, w, env) ==
    IF ~env.dir
    THEN [this |-> this, w |-> w, ret |-> FALSE]
    ELSE LET Opened(c) ==
                 LET name == getFullFileName(c.this)
                     Result(o) ==
                         [this |-> [c.this EXCEPT !.m_File = o.file],
                          w |-> [o.w EXCEPT !.disk =
                                    [f \in DOMAIN o.w.disk \ {name} |-> o.w.disk[f]]],
                          ret |-> ~(o.file.failbit \/ o.file.badbit)]
                 IN Result(StreamOpen(c.this.m_File, c.w, name, env.file))
         IN Opened(FileLogger_close(this, w))

\* FileLogger::open.  env.dir: the directory exists or is created (FALSE:
\* create_directories fails or throws); env.file: the system lets the file
\* be opened
FileLogger_open(this, w, env) ==
    IF ~env.dir
    THEN [this |-> this, w |-> w, ret |-> FALSE]
    ELSE LET Opened(c) ==
                 LET Result(o) ==
                         [this |-> [c.this EXCEPT !.m_File = o.file], w |-> o.w,
                          ret |-> ~(o.file.failbit \/ o.file.badbit)]
                 IN Result(StreamOpen(c.this.m_File, c.w,
                                      getFullFileName(c.this), env.file))
         IN Opened(FileLogger_close(this, w))

\* FileLogger::writeLog flushing when pending exceeds the batch size, not
\* when it reaches it
FileLogger_writeLog_gt(this, w, msg, ioerr) ==
    IF ~this.m_File.is_open
    THEN [this |-> this, w |-> w, ret |-> FALSE]
    ELSE LET f1 == StreamInsert(this.m_File, msg, ioerr)
             n  == this.m_NotFlushedNum + 1
             fl == StreamFlush(f1, w)
         IN IF n > this.m_MaxFlushNum
            THEN [this |-> [this EXCEPT !.m_File = fl.file,
                                        !.m_NotFlushedNum = 0],
                  w |-> fl.w, ret |-> ~f1.badbit]
            ELSE [this |-> [this EXCEPT !.m_File = f1,
                                        !.m_NotFlushedNum = n],
                  w |-> w, ret |-> ~f1.badbit]

\* FileLogger::writeLog without its is_open test
FileLogger_writeLog_nocheck(this, w, msg, ioerr) ==
    LET f1 == StreamInsert(this.m_File, msg, ioerr)
        n  == this.m_NotFlushedNum + 1
        fl == StreamFlush(f1, w)
    IN IF n >= this.m_MaxFlushNum
       THEN [this |-> [this EXCEPT !.m_File = fl.file, !.m_NotFlushedNum = 0],
             w |-> fl.w, ret |-> ~f1.badbit]
       ELSE [this |-> [this EXCEPT !.m_File = f1, !.m_NotFlushedNum = n],
             w |-> w, ret |-> ~f1.badbit]

\* FileLogger::writeLog counting a message it could not write
FileLogger_writeLog_count(this, w, msg, ioerr) ==
    IF ~this.m_File.is_open
    THEN [this |-> [this EXCEPT !.m_NotFlushedNum = @ + 1], w |-> w,
          ret |-> FALSE]
    ELSE LET f1 == StreamInsert(this.m_File, msg, ioerr)
             n  == this.m_NotFlushedNum + 1
             fl == StreamFlush(f1, w)
         IN IF n >= this.m_MaxFlushNum
            THEN [this |-> [this EXCEPT !.m_File = fl.file,
                                        !.m_NotFlushedNum = 0],
                  w |-> fl.w, ret |-> ~f1.badbit]
            ELSE [this |-> [this EXCEPT !.m_File = f1,
                                        !.m_NotFlushedNum = n],
                  w |-> w, ret |-> ~f1.badbit]

\* FileLogger::writeLog
FileLogger_writeLog(this, w, msg, ioerr) ==
    IF ~this.m_File.is_open
    THEN [this |-> this, w |-> w, ret |-> FALSE]
    ELSE LET f1 == StreamInsert(this.m_File, msg, ioerr)
             n  == this.m_NotFlushedNum + 1
             fl == StreamFlush(f1, w)
         IN IF n >= this.m_MaxFlushNum
            THEN [this |-> [this EXCEPT !.m_File = fl.file,
                                        !.m_NotFlushedNum = 0],
                  w |-> fl.w, ret |-> ~f1.badbit]
            ELSE [this |-> [this EXCEPT !.m_File = f1,
                                        !.m_NotFlushedNum = n],
                  w |-> w, ret |-> ~f1.badbit]

\* FileLogger::logImpl, run by one thread with no other thread in the sink:
\* the lock it takes when m_IsThreadSafe is free and is released on return
FileLogger_logImpl(this, w, msg, ioerr) == FileLogger_writeLog(this, w, msg, ioerr)

----------------------------------------------------------------------------
(* class RollingFileLogger *)

\* RollingFileLogger::RollingFileLogger: m_LastCreatedTime is left
\* uninitialized (garbage is the value it happens to hold)
RollingFileLogger_new(garbage) ==
    [type |-> "RollingFileLogger", m_Level |-> LOG_DEFAULT_LOGLEVEL,
     m_MaxFlushNum |-> LOG_DEFAULT_FLUSH_NUM, m_NotFlushedNum |-> 0,
     m_FilePath |-> LOG_DEFAULT_FILE_PATH,
     m_FileBaseName |-> LOG_DEFAULT_FILE_BASENAME,
     m_FileSuffix |-> LOG_DEFAULT_FILE_SUFFIX,
     m_pFileLogger |-> NULL, m_LastCreatedTime |-> garbage]

\* RollingFileLogger::config
RollingFileLogger_config(this, conf) == FileLogger_config(this, conf)

\* the assignment m_pFileLogger = shared_ptr(p): the FileLogger held before
\* loses its last owner and is destroyed
ResetFileLogger(this, w, p) ==
    [this |-> [this EXCEPT !.m_pFileLogger = p],
     w    |-> IF this.m_pFileLogger # NULL
              THEN FileLogger_delete(this.m_pFileLogger, w) ELSE w]

\* RollingFileLogger::open
RollingFileLogger_open(this, w, clock, env) ==
    LET date == getCurrentDate(clock)
        file_name == getFileNameByDate(this.m_FileBaseName, date)
        p  == FileLogger_new(this.m_FilePath, file_name, this.m_FileSuffix,
                             getLevel(this), this.m_MaxFlushNum, FALSE)
        Opened(a) ==
            LET Result(o) ==
                    [this |-> [a.this EXCEPT !.m_pFileLogger = o.this],
                     w |-> o.w, ret |-> o.ret]
            IN Result(FileLogger_open(a.this.m_pFileLogger, a.w, env))
    IN Opened(ResetFileLogger([this EXCEPT !.m_LastCreatedTime = date], w, p))

\* RollingFileLogger::close
RollingFileLogger_close(this, w) ==
    IF this.m_pFileLogger # NULL
    THEN LET c == FileLogger_close(this.m_pFileLogger, w) IN
         [this |-> [this EXCEPT !.m_pFileLogger = c.this], w |-> c.w,
          ret |-> TRUE]
    ELSE [this |-> this, w |-> w, ret |-> TRUE]

\* RollingFileLogger::rotateFile
RollingFileLogger_rotateFile(this, w, clock, env) ==
    LET Reopen(c) == RollingFileLogger_open(c.this, c.w, clock, env)
    IN Reopen(RollingFileLogger_close(this, w))

\* a day-boundary test that compares the month instead of the day
DayPassed_month(this, date_now) ==
    this.m_LastCreatedTime.tm_mon # date_now.tm_mon

\* the day-boundary test of RollingFileLogger::logImpl
DayPassed(this, date_now) == this.m_LastCreatedTime.tm_mday # date_now.tm_mday

\* RollingFileLogger::logImpl, run by one thread with no other thread in the
\* sink.  rot: whether rotateFile ran ("none" when it did not) and how the
\* open() inside it ended ("ok", "failed"), which the code itself discards
RollingFileLogger_logImpl(this, w, clock, msg, env, ioerr) ==
    LET date_now == getCurrentDate(clock)
        Write(r) ==
            LET rot == IF ~DayPassed(this, date_now) THEN "none"
                       ELSE IF r.ret THEN "ok" ELSE "failed"
                Result(l) ==
                    [this |-> [r.this EXCEPT !.m_pFileLogger = l.this],
                     w |-> l.w, ret |-> l.ret, rot |-> rot]
            IN IF r.this.m_pFileLogger # NULL
               THEN Result(FileLogger_logImpl(r.this.m_pFileLogger, r.w,
                                              msg, ioerr))
               ELSE [this |-> r.this, w |-> r.w, ret |-> FALSE, rot |-> rot]
    IN Write(IF DayPassed(this, date_now)
             THEN RollingFileLogger_rotateFile(this, w, clock, env)
             ELSE [this |-> this, w |-> w, ret |-> TRUE])

----------------------------------------------------------------------------
(* The virtual interface of Logger *)

\* Logger::createLoggerInterface (garbage: see RollingFileLogger_new).
\* NULL stands for the runtime_error thrown on a wrong type.
createLoggerInterface(type, garbage) ==
    CASE type = TO_STDERR -> StdErrLogger_new
      [] type = TO_FILE -> FileLogger_default
      [] type = TO_ROLLING_FILE -> RollingFileLogger_new(garbage)
      [] OTHER -> NULL

\* the virtual call config(conf)
config(this, conf) ==
    CASE this.type = "StdErrLogger" -> Logger_config(this, conf)
      [] this.type = "FileLogger" -> FileLogger_config(this, conf)
      [] this.type = "RollingFileLogger" -> RollingFileLogger_config(this, conf)

\* the virtual call open()
open(this, w, clock, env) ==
    CASE this.type = "StdErrLogger" -> [this |-> this, w |-> w, ret |-> TRUE]
      [] this.type = "FileLogger" -> FileLogger_open(this, w, env)
      [] this.type = "RollingFileLogger" ->
             RollingFileLogger_open(this, w, clock, env)

\* the virtual call close()
close(this, w) ==
    CASE this.type = "StdErrLogger" -> [this |-> this, w |-> w, ret |-> TRUE]
      [] this.type = "FileLogger" -> FileLogger_close(this, w)
      [] this.type = "RollingFileLogger" -> RollingFileLogger_close(this, w)

\* the virtual call logImpl(msg)
logImpl(this, w, clock, msg, env, ioerr) ==
    CASE this.type = "StdErrLogger" ->
             [rot |-> "none"] @@ StdErrLogger_logImpl(this, w, msg)
      [] this.type = "FileLogger" ->
             [rot |-> "none"] @@ FileLogger_logImpl(this, w, msg, ioerr)
      [] this.type = "RollingFileLogger" ->
             RollingFileLogger_logImpl(this, w, clock, msg, env, ioerr)

\* a level gate that tests the level copied into the inner FileLogger of a
\* Rolling sink when it was opened
Admits_snapshot(this, level) ==
    IF this.type = "RollingFileLogger" /\ this.m_pFileLogger # NULL
    THEN level >= this.m_pFileLogger.m_Level
    ELSE level >= this.m_Level

\* the level gate of Logger::log
Admits(this, level) == level >= this.m_Level

\* Logger::log without its level test
Logger_log_nogate(this, w, clock, msg, level, env, ioerr) ==
    logImpl(this, w, clock, msg, env, ioerr)

\* Logger::log
Logger_log(this, w, clock, msg, level, env, ioerr) ==
    IF Admits(this, level)
    THEN logImpl(this, w, clock, msg, env, ioerr)
    ELSE [this |-> this, w |-> w, ret |-> FALSE, rot |-> "none"]


----------------------------------------------------------------------------
(* Inputs *)

\* the message texts
Msgs == {"a", "b"}

\* the levels a caller passes to log
Levels == LOG_LEVEL_DEBUG .. LOG_LEVEL_ERROR

\* the values a caller passes to setLevel: every level, and LOG_LEVEL_MAX
SetLevels == LOG_LEVEL_DEBUG .. LOG_LEVEL_MAX

\* what the file system answers to one open(): see FileLogger_open
Envs == [dir : BOOLEAN, file : BOOLEAN]

\* a file system that refuses nothing
EnvOk == [dir |-> TRUE, file |-> TRUE]

\* the sink types a caller asks createLoggerInterface for
SinkTypes == {TO_STDERR, TO_FILE, TO_ROLLING_FILE}

\* the threads
NoThread == 0
Threads == 1 .. NumThreads

----------------------------------------------------------------------------
(* Observers *)

\* today's date as localtime_r gives it
Today == getCurrentDate(now)

RECURSIVE SumLen(_, _)
SumLen(d, fs) ==
    IF fs = {} THEN 0
    ELSE LET f == CHOOSE x \in fs : TRUE IN Len(d[f]) + SumLen(d, fs \ {f})

\* the FileLogger that writes for sink s: s itself, the Rolling sink's inner
\* one, or NULL
FileOf(s) ==
    CASE s.type = "FileLogger" -> s
      [] s.type = "RollingFileLogger" -> s.m_pFileLogger
      [] OTHER -> NULL

\* the messages sink s holds in its stream buffer
Buffered(s) == IF FileOf(s) = NULL THEN <<>> ELSE FileOf(s).m_File.buf

\* whether sink s has an open stream
IsOpen(s) == FileOf(s) # NULL /\ FileOf(s).m_File.is_open

\* the messages written so far, to files, stream buffers and standard error
TotalLogged(s) == SumLen(disk, DOMAIN disk) + Len(Buffered(s)) + Len(errout)

----------------------------------------------------------------------------
(* Spec: one sink, made by createLoggerInterface and configured, then used  *)
(* through the public interface of Logger by one thread                     *)

NoOp == [op |-> "new", ret |-> TRUE, rot |-> "none", admitted |-> TRUE,
         level |-> LOG_LEVEL_DEBUG]

ThreadsIdle ==
    /\ pc = [t \in Threads |-> "idle"]
    /\ arg = [t \in Threads |-> [msg |-> "a", tmp |-> 0, ret |-> FALSE]]
    /\ m_Mutex = [sink |-> NoThread, file |-> NoThread]
    /\ writing = {}
    /\ rotations = <<>>

EmptyWorld ==
    /\ disk = <<>>
    /\ handles = <<>>
    /\ errout = <<>>
    /\ now = StartDate
    /\ ticks = 0

Init ==
    /\ s_pLogSys = NULL
    /\ \E type \in SinkTypes, conf \in SinkConfs, garbage \in UninitTm(StartDate) :
           m_pLogger = config(createLoggerInterface(type, garbage), conf)
    /\ EmptyWorld
    /\ last = NoOp
    /\ ThreadsIdle

SetWorld(w) ==
    /\ disk' = w.disk
    /\ handles' = w.handles
    /\ errout' = w.errout

\* The answers of the file system that log(msg, level) on sink s can read:
\* it opens a file only in a rotation, and inserts only when the gate admits
EnvsRead(s, level) ==
    IF s.type = "RollingFileLogger" /\ Admits(s, level)
       /\ DayPassed(s, getCurrentDate(now))
    THEN Envs ELSE {EnvOk}

ErrsRead(s, level) ==
    IF s.type \in {"FileLogger", "RollingFileLogger"} /\ Admits(s, level)
    THEN BOOLEAN ELSE {FALSE}

\* m_pLogger->open()
Open(env) ==
    \E r \in {open(m_pLogger, World, now, env)} :
    /\ m_pLogger' = r.this
    /\ SetWorld(r.w)
    /\ last' = [NoOp EXCEPT !.op = "open", !.ret = r.ret]
    /\ UNCHANGED <<s_pLogSys, now, ticks, pc, arg, m_Mutex, writing, rotations>>

\* m_pLogger->close()
Close ==
    \E r \in {close(m_pLogger, World)} :
    /\ m_pLogger' = r.this
    /\ SetWorld(r.w)
    /\ last' = [NoOp EXCEPT !.op = "close", !.ret = r.ret]
    /\ UNCHANGED <<s_pLogSys, now, ticks, pc, arg, m_Mutex, writing, rotations>>

\* m_pLogger->log(msg, level)
Log(msg, level, env, ioerr) ==
    \E r \in {Logger_log(m_pLogger, World, now, msg, level, env, ioerr)} :
    /\ TotalLogged(m_pLogger) < MaxLog
    /\ m_pLogger' = r.this
    /\ SetWorld(r.w)
    /\ last' = [op |-> "log", ret |-> r.ret, rot |-> r.rot,
                admitted |-> Admits(m_pLogger, level), level |-> level]
    /\ UNCHANGED <<s_pLogSys, now, ticks, pc, arg, m_Mutex, writing, rotations>>

\* any emit
Emit ==
    \E msg \in Msgs, level \in Levels :
        \E env \in EnvsRead(m_pLogger, level), ioerr \in ErrsRead(m_pLogger, level) :
            Log(msg, level, env, ioerr)

\* the clock advances
Tick(j) ==
    /\ ticks < MaxTicks
    /\ now' = AddDays(now, j)
    /\ ticks' = ticks + 1
    /\ last' = [NoOp EXCEPT !.op = "tick"]
    /\ UNCHANGED <<s_pLogSys, m_pLogger, disk, handles, errout,
                   pc, arg, m_Mutex, writing, rotations>>

Next ==
    \/ \E env \in Envs : Open(env)
    \/ Close
    \/ Emit
    \/ \E j \in Jumps : Tick(j)

Spec == Init /\ [][Next]_vars


----------------------------------------------------------------------------
(* class LogSys, and SpecSys: the process that logs through the singleton   *)

\* the destructor of a Logger, through its virtual table
Logger_delete(this, w) ==
    CASE this.type = "StdErrLogger" -> w
      [] this.type = "FileLogger" -> FileLogger_delete(this, w)
      [] this.type = "RollingFileLogger" ->
             LET c == RollingFileLogger_close(this, w) IN
             IF c.this.m_pFileLogger # NULL
             THEN FileLogger_delete(c.this.m_pFileLogger, c.w) ELSE c.w

\* LogConfig::parseConfig(config_file): whether the file is read and parsed
parseConfig(config_file) == config_file.parses

\* the configuration files init is called with: the empty path, a file that
\* does not parse, and files that name a destination and sink options
ConfigFiles ==
    { [path |-> <<>>, parses |-> FALSE, conf |-> EmptyConf],
      [path |-> <<"x">>, parses |-> FALSE, conf |-> EmptyConf],
      [path |-> <<"e">>, parses |-> TRUE, conf |-> EmptyConf] }
    \cup { [path |-> <<"c">>, parses |-> TRUE,
            conf |-> (TEXT_LOG_DESTINATION :> d) @@ sc] :
               d \in {TO_FILE, TO_ROLLING_FILE, TO_MAX}, sc \in SinkConfs }

\* a constructor of LogSys that does not throw when open() fails
LogSys_new_partial(config_file, w, clock, garbage, env) ==
    IF config_file.path # <<>> /\ ~parseConfig(config_file)
    THEN [this |-> NULL, w |-> w]
    ELSE LET m_LogConfig == IF config_file.path = <<>> THEN EmptyConf
                            ELSE config_file.conf
             desti == getUnsigned(m_LogConfig, TEXT_LOG_DESTINATION, TO_STDERR)
             lg == createLoggerInterface(desti, garbage)
         IN IF lg = NULL
            THEN [this |-> NULL, w |-> w]
            ELSE LET Built(o) ==
                         [this |-> [type |-> "LogSys", m_pLogger |-> o.this],
                          w |-> o.w]
                 IN Built(open(config(lg, m_LogConfig), w, clock, env))

\* LogSys::LogSys(config_file).  this = NULL: the constructor threw
LogSys_new(config_file, w, clock, garbage, env) ==
    IF config_file.path # <<>> /\ ~parseConfig(config_file)
    THEN [this |-> NULL, w |-> w]
    ELSE LET m_LogConfig == IF config_file.path = <<>> THEN EmptyConf
                            ELSE config_file.conf
             desti == getUnsigned(m_LogConfig, TEXT_LOG_DESTINATION, TO_STDERR)
             lg == createLoggerInterface(desti, garbage)
         IN IF lg = NULL
            THEN [this |-> NULL, w |-> w]
            ELSE LET Built(o) ==
                         IF ~o.ret
                         THEN [this |-> NULL, w |-> Logger_delete(o.this, o.w)]
                         ELSE [this |-> [type |-> "LogSys", m_pLogger |-> o.this],
                               w |-> o.w]
                 IN Built(open(config(lg, m_LogConfig), w, clock, env))

\* LogSys::initialize without its test for an installed singleton
LogSys_initialize_always(sys, config_file, w, clock, garbage, env) ==
    LET Installed(n) == [sys |-> n.this, w |-> n.w, ret |-> n.this # NULL]
    IN Installed(LogSys_new(config_file, w, clock, garbage, env))

\* LogSys::initialize
LogSys_initialize(sys, config_file, w, clock, garbage, env) ==
    IF sys = NULL
    THEN LET Installed(n) == [sys |-> n.this, w |-> n.w, ret |-> n.this # NULL]
         IN Installed(LogSys_new(config_file, w, clock, garbage, env))
    ELSE [sys |-> sys, w |-> w, ret |-> TRUE]

\* LogSys::getInstance
getInstance == s_pLogSys

\* LogSys::log
LogSys_log(this, w, clock, msg, level, env, ioerr) ==
    LET Result(r) ==
            [this |-> [this EXCEPT !.m_pLogger = r.this], w |-> r.w,
             ret |-> r.ret, rot |-> r.rot]
    IN Result(Logger_log(this.m_pLogger, w, clock, msg, level, env, ioerr))

\* LogSys::setLevel
LogSys_setLevel(this, level) ==
    [this EXCEPT !.m_pLogger = Logger_setLevel(this.m_pLogger, level)]

\* the sink of the installed singleton, or NULL
Sink == IF s_pLogSys = NULL THEN NULL ELSE s_pLogSys.m_pLogger

InitSys ==
    /\ s_pLogSys = NULL
    /\ m_pLogger = NULL
    /\ EmptyWorld
    /\ last = NoOp
    /\ ThreadsIdle

\* LOG_SYS_INIT(config_file)
LOG_SYS_INIT(config_file, garbage, env) ==
    \E r \in {LogSys_initialize(s_pLogSys, config_file, World, now, garbage, env)} :
    /\ s_pLogSys' = r.sys
    /\ SetWorld(r.w)
    /\ last' = [NoOp EXCEPT !.op = "init", !.ret = r.ret]
    /\ UNCHANGED <<m_pLogger, now, ticks, pc, arg, m_Mutex, writing, rotations>>

\* LOG_OUT(log, level).  last.ret is what Logger::log returned, which
\* LogSys::log drops; with no singleton nothing is called
LOG_OUT(msg, level, env, ioerr) ==
    /\ TotalLogged(Sink) < MaxLog
    /\ IF getInstance # NULL
       THEN \E r \in {LogSys_log(getInstance, World, now, msg, level, env, ioerr)} :
            /\ s_pLogSys' = r.this
            /\ SetWorld(r.w)
            /\ last' = [op |-> "log", ret |-> r.ret, rot |-> r.rot,
                        admitted |-> Admits(Sink, level), level |-> level]
       ELSE /\ UNCHANGED <<s_pLogSys, disk, handles, errout>>
            /\ last' = [NoOp EXCEPT !.op = "nolog", !.ret = FALSE]
    /\ UNCHANGED <<m_pLogger, now, ticks, pc, arg, m_Mutex, writing, rotations>>

\* any emit
EmitSys ==
    \E msg \in Msgs, level \in Levels :
        \E env \in EnvsRead(Sink, level), ioerr \in ErrsRead(Sink, level) :
            LOG_OUT(msg, level, env, ioerr)

\* LogSys::getInstance()->setLevel(level)
SetLevel(level) ==
    /\ getInstance # NULL
    /\ s_pLogSys' = LogSys_setLevel(getInstance, level)
    /\ last' = [NoOp EXCEPT !.op = "setLevel"]
    /\ UNCHANGED <<m_pLogger, disk, handles, errout, now, ticks,
                   pc, arg, m_Mutex, writing, rotations>>

\* the clock advances
TickSys(j) ==
    /\ ticks < MaxSysTicks
    /\ now' = AddDays(now, j)
    /\ ticks' = ticks + 1
    /\ last' = [NoOp EXCEPT !.op = "tick"]
    /\ UNCHANGED <<s_pLogSys, m_pLogger, disk, handles, errout,
                   pc, arg, m_Mutex, writing, rotations>>

NextSys ==
    \/ \E cf \in ConfigFiles, garbage \in UninitTm(now), env \in Envs :
           LOG_SYS_INIT(cf, garbage, env)
    \/ EmitSys
    \/ \E level \in SetLevels : SetLevel(level)
    \/ \E j \in Jumps : TickSys(j)

SpecSys == InitSys /\ [][NextSys]_vars


----------------------------------------------------------------------------
(* Claims about one thread: the level gate, rotation, flushing, handles     *)

\* C1 (SpecSys): an emit whose level is below the sink's current level
\* returns false, writes nothing to the destination (file, stream buffer or
\* standard error), performs no rotation and leaves pending and every other
\* member of the sink as it was, for each of the three sinks.
C1_GatedEmitHasNoEffect ==
    [][\A level \in Levels :
          (/\ last'.op = "log"
           /\ Sink # NULL
           /\ level < Sink.m_Level
           /\ \E msg \in Msgs, env \in Envs, ioerr \in BOOLEAN :
                  LOG_OUT(msg, level, env, ioerr))
          => (/\ last'.ret = FALSE
              /\ last'.rot = "none"
              /\ s_pLogSys' = s_pLogSys
              /\ UNCHANGED <<disk, handles, errout>>)]_vars

\* a gated emit has just returned false on an open Rolling sink whose
\* recorded day of month is not today's: an admitted emit would have rotated
C1_Witness ==
    /\ last.op = "log" /\ last.ret = FALSE
    /\ Sink.type = "RollingFileLogger"
    /\ IsOpen(Sink) /\ ~FileOf(Sink).m_File.badbit
    /\ DayPassed(Sink, Today)

\* C2 (Spec), as claimed: an admitted emit on an open Rolling sink whose
\* recorded date differs from today's in any component (year, month or day)
\* rotates, so that afterwards the recorded date is today's and, when the
\* file system refuses nothing, the open file is today's.
C2_RotatesOnAnyDateChange ==
    [][\A level \in Levels, env \in Envs :
          (/\ last'.op = "log"
           /\ m_pLogger.type = "RollingFileLogger"
           /\ IsOpen(m_pLogger)
           /\ m_pLogger.m_LastCreatedTime # Today
           /\ Admits(m_pLogger, level)
           /\ \E msg \in Msgs, ioerr \in BOOLEAN : Log(msg, level, env, ioerr))
          => (/\ last'.rot # "none"
              /\ m_pLogger'.m_LastCreatedTime = Today
              /\ (env = EnvOk =>
                    FileOf(m_pLogger').m_File.fd =
                        getFullFileName(
                            [m_pLogger EXCEPT !.m_FileBaseName =
                                getFileNameByDate(@, Today)])))]_vars

\* the members of the FileLogger that writes for sink s
Pending(s) == FileOf(s).m_NotFlushedNum
MaxUnflushed(s) == FileOf(s).m_MaxFlushNum

\* C5 (Spec): with max_unflushed >= 1, pending and the number of buffered,
\* unflushed messages are at most max_unflushed - 1 in every state between
\* operations; an emit on an open sink that brings pending to max_unflushed
\* flushes everything buffered to the file and resets pending to 0, and any
\* other emit on an open sink adds one to pending and flushes nothing.
C5_PendingBelowMax ==
    /\ [](FileOf(m_pLogger) # NULL /\ MaxUnflushed(m_pLogger) >= 1
            => /\ Pending(m_pLogger) <= MaxUnflushed(m_pLogger) - 1
               /\ Len(Buffered(m_pLogger)) <= MaxUnflushed(m_pLogger) - 1)
    /\ [][\A level \in Levels :
            (/\ last'.op = "log" /\ last'.rot = "none"
             /\ IsOpen(m_pLogger)
             /\ MaxUnflushed(m_pLogger) >= 1
             /\ Admits(m_pLogger, level)
             /\ \E msg \in Msgs, env \in Envs, ioerr \in BOOLEAN :
                    Log(msg, level, env, ioerr))
            => LET fd == FileOf(m_pLogger).m_File.fd IN
               IF Pending(m_pLogger) + 1 >= MaxUnflushed(m_pLogger)
               THEN /\ Pending(m_pLogger') = 0
                    /\ Buffered(m_pLogger') = <<>>
                    /\ \E m \in SUBSET Msgs :
                          /\ Cardinality(m) <= 1
                          /\ \A x \in m : last'.ret
                          /\ \E tl \in [1 .. Cardinality(m) -> m] :
                               Content(disk', fd) =
                                 Content(disk, fd) \o Buffered(m_pLogger) \o tl
               ELSE /\ Pending(m_pLogger') = Pending(m_pLogger) + 1
                    /\ disk' = disk]_vars

\* an emit has just flushed two buffered messages at once
C5_Witness ==
    /\ last.op = "log" /\ last.ret
    /\ IsOpen(m_pLogger)
    /\ MaxUnflushed(m_pLogger) = 2
    /\ Pending(m_pLogger) = 0
    /\ Len(Content(disk, FileOf(m_pLogger).m_File.fd)) = 2

\* C8 (Spec): a rotation whose open() fails leaves the Rolling sink with no
\* open handle and its emit returns false; while the sink has no open handle
\* every emit that does not re-open it returns false and writes nothing; an
\* emit whose rotation re-opens the file, and every admitted emit on the
\* open sink after it, returns true unless its own write fails.
C8_FailedRotationClosesSink ==
    [][(last'.op = "log" /\ m_pLogger.type = "RollingFileLogger")
         => /\ last'.rot = "failed"
                => ~last'.ret /\ ~IsOpen(m_pLogger') /\ handles' = <<>>
            /\ (~IsOpen(m_pLogger) /\ last'.rot # "ok")
                => /\ ~last'.ret
                   /\ ~IsOpen(m_pLogger')
                   /\ UNCHANGED <<disk, handles, errout>>
                   /\ Buffered(m_pLogger') = <<>>
            /\ last'.rot = "ok"
                => /\ IsOpen(m_pLogger')
                   /\ last'.ret <=> ~FileOf(m_pLogger').m_File.badbit
            /\ \A level \in Levels :
                 (/\ IsOpen(m_pLogger) /\ last'.rot = "none"
                  /\ Admits(m_pLogger, level)
                  /\ \E msg \in Msgs, env \in Envs, ioerr \in BOOLEAN :
                         Log(msg, level, env, ioerr))
                 => (last'.ret <=> ~FileOf(m_pLogger').m_File.badbit)]_vars

\* on a later day than the one it was opened and wrote a message on, an
\* emit on the Rolling sink has just rotated, the open() of the rotation has
\* failed, and the emit has returned false
C8_Witness ==
    /\ last.op = "log" /\ last.rot = "failed" /\ ~last.ret
    /\ m_pLogger.type = "RollingFileLogger"
    /\ ~IsOpen(m_pLogger)
    /\ ticks >= 1
    /\ DOMAIN disk # {}

\* C10 (Spec): a sink holds zero or one open file handle: the process has at
\* most one open handle, and it has one exactly when the sink's stream is
\* open, the handle of that stream's file.
C10_AtMostOneHandle ==
    /\ Len(handles) <= 1
    /\ IsOpen(m_pLogger) => handles = <<FileOf(m_pLogger).m_File.fd>>
    /\ ~IsOpen(m_pLogger) => handles = <<>>

\* a Rolling sink was opened on one day and opened again on a later day
\* without a close in between (by open() or by a rotation)
C10_Witness ==
    /\ m_pLogger.type = "RollingFileLogger"
    /\ IsOpen(m_pLogger)
    /\ ticks > 0
    /\ m_pLogger.m_LastCreatedTime = Today
    /\ last.op \in {"open", "log"}
    /\ Len(handles) = 1

----------------------------------------------------------------------------
(* Claims about the singleton *)

\* whether an init with configuration file cf must fail when the file
\* system answers env: the file does not parse, it names no sink type, or
\* the file its sink writes to cannot be opened
InitMustFail(cf, env) ==
    LET dest == IF cf.path = <<>> THEN TO_STDERR
                ELSE getUnsigned(cf.conf, TEXT_LOG_DESTINATION, TO_STDERR)
    IN \/ cf.path # <<>> /\ ~parseConfig(cf)
       \/ dest \notin SinkTypes
       \/ dest \in {TO_FILE, TO_ROLLING_FILE} /\ env # EnvOk

\* C6 (SpecSys): once a singleton is installed, init with any configuration
\* file, whatever the file system would answer, returns success and changes
\* neither the singleton (its sink, the sink's kind, level and file) nor any
\* file, handle or output: it reads no configuration and opens nothing.
C6_InitIsIdempotent ==
    /\ [](getInstance # NULL
            => \A cf \in ConfigFiles, env \in Envs, garbage \in UninitTm(now) :
                  LogSys_initialize(s_pLogSys, cf, World, now, garbage, env)
                      = [sys |-> s_pLogSys, w |-> World, ret |-> TRUE])
    /\ [][(last'.op = "init" /\ getInstance # NULL)
            => /\ last'.ret = TRUE
               /\ s_pLogSys' = s_pLogSys
               /\ UNCHANGED <<disk, handles, errout>>]_vars

\* init has just returned on a singleton whose sink has already logged
C6_Witness ==
    /\ last.op = "init" /\ last.ret
    /\ getInstance # NULL
    /\ TotalLogged(Sink) > 0

\* C7 (SpecSys): an init that fails returns fail and leaves the singleton
\* absent; init fails on a configuration file that does not parse or names
\* no sink type and when the sink's file cannot be opened, and leaves no
\* file handle open; while the singleton is absent a log() changes no file,
\* handle or output, and every other init succeeds and installs it.
C7_FailedInitInstallsNothing ==
    /\ []((last.op = "init" /\ ~last.ret) => getInstance = NULL)
    /\ [](getInstance = NULL
            => /\ handles = <<>>
               /\ \A cf \in ConfigFiles, env \in Envs, garbage \in UninitTm(now) :
                    LET r == LogSys_initialize(s_pLogSys, cf, World, now,
                                               garbage, env)
                    IN IF InitMustFail(cf, env)
                       THEN ~r.ret /\ r.sys = NULL /\ r.w.handles = <<>>
                       ELSE r.ret /\ r.sys # NULL)
    /\ [][(last'.op = "init" /\ getInstance = NULL)
            => (last'.ret <=> getInstance' # NULL)]_vars
    /\ [][(last'.op = "nolog")
            => /\ getInstance = NULL
               /\ UNCHANGED <<s_pLogSys, disk, handles, errout>>]_vars

\* init has just failed: no singleton is installed
C7_Witness ==
    /\ last.op = "init" /\ ~last.ret
    /\ getInstance = NULL

----------------------------------------------------------------------------
(* SpecMT: threads that emit into one open File or Rolling sink, each emit  *)
(* a sequence of steps of Logger::log, logImpl and writeLog.  "m_File <<    *)
(* msg" is two steps, the message's head and its tail, so that two writes   *)
(* that overlap show in the stream; m_NotFlushedNum++ is a read and a write *)

\* the sink with f as the FileLogger that writes for it
WithFile(sink, f) ==
    IF sink.type = "FileLogger" THEN f ELSE [sink EXCEPT !.m_pFileLogger = f]

\* whether logImpl of sink s locks the sink's m_Mutex
TakesLock_never(s) == FALSE

TakesLock(s) ==
    CASE s.type = "FileLogger" -> s.m_IsThreadSafe
      [] s.type = "RollingFileLogger" -> TRUE
      [] OTHER -> FALSE

\* the two halves of thread t's message
Chunk(t, part) == [t |-> t, msg |-> arg[t].msg, part |-> part]

\* the positions of an emit before it has inserted anything
BeforeWrite == {"lock", "day", "rot_close", "rot_open", "inner", "check", "write"}

\* the positions of FileLogger::writeLog
InWriteLog == {"check", "write", "writing", "inc_read", "inc_write", "flush"}

\* the positions of RollingFileLogger::logImpl under its lock
InRolling == {"day", "rot_close", "rot_open", "inner"} \cup InWriteLog \cup {"unlock"}

\* the positions of close()
InClose == {"close_flush", "close_close"}

Heads(seq) == Cardinality({i \in 1 .. Len(seq) : seq[i].part = "head"})

RECURSIVE SumHeads(_, _)
SumHeads(d, fs) ==
    IF fs = {} THEN 0
    ELSE LET f == CHOOSE x \in fs : TRUE IN Heads(d[f]) + SumHeads(d, fs \ {f})

\* the emits begun: those that have inserted, and those on their way to
Begun ==
    SumHeads(disk, DOMAIN disk) + Heads(Buffered(m_pLogger))
        + Cardinality({t \in Threads : pc[t] \in BeforeWrite})

\* the sink options of SpecMT: the default file names
MTConfs == {c \in SinkConfs : TEXT_LOG_FILE_SUFFIX \notin DOMAIN c}

InitMT ==
    /\ s_pLogSys = NULL
    /\ now = StartDate
    /\ ticks = 0
    /\ \E type \in {TO_FILE, TO_ROLLING_FILE}, conf \in MTConfs :
          LET r == open(config(createLoggerInterface(type, getCurrentDate(StartDate)),
                               conf),
                        [disk |-> <<>>, handles |-> <<>>, errout |-> <<>>],
                        StartDate, EnvOk)
          IN /\ m_pLogger = r.this
             /\ disk = r.w.disk
             /\ handles = r.w.handles
             /\ errout = r.w.errout
    /\ last = NoOp
    /\ ThreadsIdle

\* Logger::log(msg, level), to the call of logImpl
BeginLog(t, msg, level) ==
    /\ pc[t] = "idle"
    /\ Begun < MaxEmits
    /\ IF Admits(m_pLogger, level)
       THEN /\ pc' = [pc EXCEPT ![t] = "lock"]
            /\ arg' = [arg EXCEPT ![t].msg = msg]
       ELSE /\ pc' = pc
            /\ arg' = [arg EXCEPT ![t].msg = msg, ![t].ret = FALSE]
    /\ UNCHANGED <<s_pLogSys, m_pLogger, disk, handles, errout, now, ticks,
                   last, m_Mutex, writing, rotations>>

\* scoped_lock lock(m_Mutex) of FileLogger::logImpl (when m_IsThreadSafe) and
\* of RollingFileLogger::logImpl
Lock(t) ==
    /\ pc[t] = "lock"
    /\ IF TakesLock(m_pLogger)
       THEN /\ m_Mutex.sink = NoThread
            /\ m_Mutex' = [m_Mutex EXCEPT !.sink = t]
       ELSE UNCHANGED m_Mutex
    /\ pc' = [pc EXCEPT ![t] =
                IF m_pLogger.type = "RollingFileLogger" THEN "day" ELSE "check"]
    /\ UNCHANGED <<s_pLogSys, m_pLogger, disk, handles, errout, now, ticks,
                   last, arg, writing, rotations>>

\* RollingFileLogger::logImpl: getCurrentDate(date_now) and the day test
DayCheck(t) ==
    /\ pc[t] = "day"
    /\ pc' = [pc EXCEPT ![t] =
                IF DayPassed(m_pLogger, Today) THEN "rot_close" ELSE "inner"]
    /\ UNCHANGED <<s_pLogSys, m_pLogger, disk, handles, errout, now, ticks,
                   last, arg, m_Mutex, writing, rotations>>

\* RollingFileLogger::rotateFile: close()
RotClose(t) ==
    /\ pc[t] = "rot_close"
    /\ \E r \in {RollingFileLogger_close(m_pLogger, World)} :
       /\ m_pLogger' = r.this
       /\ SetWorld(r.w)
       /\ pc' = [pc EXCEPT ![t] = "rot_open"]
       /\ UNCHANGED <<s_pLogSys, now, ticks, last, arg, m_Mutex, writing, rotations>>

\* RollingFileLogger::rotateFile: open()
RotOpen(t, env) ==
    /\ pc[t] = "rot_open"
    /\ \E r \in {RollingFileLogger_open(m_pLogger, World, now, env)} :
       /\ m_pLogger' = r.this
       /\ SetWorld(r.w)
       /\ rotations' = Append(rotations, [to |-> Today, ok |-> r.ret])
       /\ pc' = [pc EXCEPT ![t] = "inner"]
       /\ UNCHANGED <<s_pLogSys, now, ticks, last, arg, m_Mutex, writing>>

\* RollingFileLogger::logImpl: the call of m_pFileLogger->logImpl(msg), which
\* locks the inner FileLogger's m_Mutex when that one is thread safe
Inner(t) ==
    /\ pc[t] = "inner"
    /\ IF m_pLogger.m_pFileLogger # NULL
       THEN /\ IF m_pLogger.m_pFileLogger.m_IsThreadSafe
               THEN /\ m_Mutex.file = NoThread
                    /\ m_Mutex' = [m_Mutex EXCEPT !.file = t]
               ELSE UNCHANGED m_Mutex
            /\ pc' = [pc EXCEPT ![t] = "check"]
            /\ arg' = arg
       ELSE /\ UNCHANGED m_Mutex
            /\ pc' = [pc EXCEPT ![t] = "unlock"]
            /\ arg' = [arg EXCEPT ![t].ret = FALSE]
    /\ UNCHANGED <<s_pLogSys, m_pLogger, disk, handles, errout, now, ticks,
                   last, writing, rotations>>

\* FileLogger::writeLog: the is_open test
Check(t) ==
    /\ pc[t] = "check"
    /\ IF FileOf(m_pLogger).m_File.is_open
       THEN pc' = [pc EXCEPT ![t] = "write"] /\ arg' = arg
       ELSE pc' = [pc EXCEPT ![t] = "unlock"]
            /\ arg' = [arg EXCEPT ![t].ret = FALSE]
    /\ UNCHANGED <<s_pLogSys, m_pLogger, disk, handles, errout, now, ticks,
                   last, m_Mutex, writing, rotations>>

\* m_File << msg begins: the head of the message
WriteBegin(t, ioerr) ==
    LET f == FileOf(m_pLogger) IN
    /\ pc[t] = "write"
    /\ m_pLogger' = WithFile(m_pLogger,
           [f EXCEPT !.m_File = StreamInsert(f.m_File, Chunk(t, "head"), ioerr)])
    /\ writing' = writing \cup {t}
    /\ pc' = [pc EXCEPT ![t] = "writing"]
    /\ UNCHANGED <<s_pLogSys, disk, handles, errout, now, ticks, last, arg,
                   m_Mutex, rotations>>

\* m_File << msg ends: the tail of the message
WriteEnd(t) ==
    LET f == FileOf(m_pLogger) IN
    /\ pc[t] = "writing"
    /\ m_pLogger' = WithFile(m_pLogger,
           [f EXCEPT !.m_File = StreamInsert(f.m_File, Chunk(t, "tail"), FALSE)])
    /\ writing' = writing \ {t}
    /\ pc' = [pc EXCEPT ![t] = "inc_read"]
    /\ UNCHANGED <<s_pLogSys, disk, handles, errout, now, ticks, last, arg,
                   m_Mutex, rotations>>

\* m_NotFlushedNum++: the read
IncRead(t) ==
    /\ pc[t] = "inc_read"
    /\ arg' = [arg EXCEPT ![t].tmp = FileOf(m_pLogger).m_NotFlushedNum]
    /\ pc' = [pc EXCEPT ![t] = "inc_write"]
    /\ UNCHANGED <<s_pLogSys, m_pLogger, disk, handles, errout, now, ticks,
                   last, m_Mutex, writing, rotations>>

\* m_NotFlushedNum++: the write
IncWrite(t) ==
    LET f == FileOf(m_pLogger) IN
    /\ pc[t] = "inc_write"
    /\ m_pLogger' = WithFile(m_pLogger,
                             [f EXCEPT !.m_NotFlushedNum = arg[t].tmp + 1])
    /\ pc' = [pc EXCEPT ![t] = "flush"]
    /\ UNCHANGED <<s_pLogSys, disk, handles, errout, now, ticks, last, arg,
                   m_Mutex, writing, rotations>>

\* FileLogger::writeLog: the flush test, the flush and the result
Flush(t) ==
    LET f  == FileOf(m_pLogger)
        fl == StreamFlush(f.m_File, World)
    IN
    /\ pc[t] = "flush"
    /\ IF f.m_NotFlushedNum >= f.m_MaxFlushNum
       THEN /\ m_pLogger' = WithFile(m_pLogger,
                   [f EXCEPT !.m_File = fl.file, !.m_NotFlushedNum = 0])
            /\ SetWorld(fl.w)
       ELSE UNCHANGED <<m_pLogger, disk, handles, errout>>
    /\ arg' = [arg EXCEPT ![t].ret = ~f.m_File.badbit]
    /\ pc' = [pc EXCEPT ![t] = "unlock"]
    /\ UNCHANGED <<s_pLogSys, now, ticks, last, m_Mutex, writing, rotations>>

\* a return of logImpl that leaves the locks taken
Unlock_keep(t) ==
    /\ pc[t] = "unlock"
    /\ pc' = [pc EXCEPT ![t] = "idle"]
    /\ UNCHANGED <<s_pLogSys, m_pLogger, disk, handles, errout, now, ticks,
                   last, arg, m_Mutex, writing, rotations>>

\* the return of logImpl: the scoped locks are released
Unlock(t) ==
    /\ pc[t] = "unlock"
    /\ m_Mutex' = [k \in DOMAIN m_Mutex |->
                     IF m_Mutex[k] = t THEN NoThread ELSE m_Mutex[k]]
    /\ pc' = [pc EXCEPT ![t] = "idle"]
    /\ UNCHANGED <<s_pLogSys, m_pLogger, disk, handles, errout, now, ticks,
                   last, arg, writing, rotations>>

\* the clock advances
TickMT(j) ==
    /\ ticks < MaxMTTicks
    /\ now' = AddDays(now, j)
    /\ ticks' = ticks + 1
    /\ UNCHANGED <<s_pLogSys, m_pLogger, disk, handles, errout, last,
                   pc, arg, m_Mutex, writing, rotations>>

\* the levels the threads emit at
MTLevels == {LOG_LEVEL_DEBUG, LOG_LEVEL_ERROR}

EmitStep(t) ==
    \/ \E level \in MTLevels : BeginLog(t, "a", level)
    \/ Lock(t)
    \/ DayCheck(t)
    \/ RotClose(t)
    \/ \E env \in Envs : RotOpen(t, env)
    \/ Inner(t)
    \/ Check(t)
    \/ \E ioerr \in BOOLEAN : WriteBegin(t, ioerr)
    \/ WriteEnd(t)
    \/ IncRead(t)
    \/ IncWrite(t)
    \/ Flush(t)
    \/ Unlock(t)

NextMT ==
    \/ \E t \in Threads : EmitStep(t)
    \/ \E j \in Jumps : TickMT(j)

SpecMT == InitMT /\ [][NextMT]_vars

----------------------------------------------------------------------------
(* SpecMTC: SpecMT, and threads that call close() on the sink               *)

\* FileLogger::close: the is_open test (through RollingFileLogger::close for
\* a Rolling sink); a close() of a closed sink returns at once
CloseBegin(t) ==
    /\ pc[t] = "idle"
    /\ IsOpen(m_pLogger)
    /\ pc' = [pc EXCEPT ![t] = "close_flush"]
    /\ UNCHANGED <<s_pLogSys, m_pLogger, disk, handles, errout, now, ticks,
                   last, arg, m_Mutex, writing, rotations>>

\* FileLogger::close: m_File.flush()
CloseFlush(t) ==
    LET f  == FileOf(m_pLogger)
        fl == StreamFlush(f.m_File, World)
    IN
    /\ pc[t] = "close_flush"
    /\ m_pLogger' = WithFile(m_pLogger, [f EXCEPT !.m_File = fl.file])
    /\ SetWorld(fl.w)
    /\ pc' = [pc EXCEPT ![t] = "close_close"]
    /\ UNCHANGED <<s_pLogSys, now, ticks, last, arg, m_Mutex, writing, rotations>>

\* FileLogger::close: m_File.close()
CloseEnd(t) ==
    LET f == FileOf(m_pLogger)
        c == StreamClose(f.m_File, World)
    IN
    /\ pc[t] = "close_close"
    /\ m_pLogger' = WithFile(m_pLogger, [f EXCEPT !.m_File = c.file])
    /\ SetWorld(c.w)
    /\ pc' = [pc EXCEPT ![t] = "idle"]
    /\ UNCHANGED <<s_pLogSys, now, ticks, last, arg, m_Mutex, writing, rotations>>

CloseStep(t) ==
    \/ CloseBegin(t)
    \/ CloseFlush(t)
    \/ CloseEnd(t)

NextMTC ==
    \/ \E t \in Threads : EmitStep(t)
    \/ \E t \in Threads : CloseStep(t)
    \/ \E j \in Jumps : TickMT(j)

SpecMTC == InitMT /\ [][NextMTC]_vars

----------------------------------------------------------------------------
(* Claims about concurrent threads *)

\* the file a Rolling sink s writes to on its day m_LastCreatedTime
DayFile(s) ==
    getFullFileName([FileOf(s) EXCEPT !.m_FileBaseName =
                        getFileNameByDate(s.m_FileBaseName, s.m_LastCreatedTime)])

\* the day of month the sink was opened on before rotation i
DayBefore(i) ==
    IF i = 1 THEN getCurrentDate(StartDate).tm_mday
    ELSE rotations[i - 1].to.tm_mday

\* C3 (SpecMT): for threads emitting into one Rolling sink while the day
\* changes, a thread between its day test and its return holds the sink's
\* mutex, so at most one thread is there; there is at most one rotation per
\* change of the day, each to a day other than the one before it; the open
\* stream is the file of the day last rotated to; and every message that
\* reaches a file reaches the file of the day the sink was last opened on,
\* never an older one.
C3_RotationInsideCriticalSection ==
    /\ [](m_pLogger.type = "RollingFileLogger"
            => /\ \A t \in Threads : pc[t] \in InRolling => m_Mutex.sink = t
               /\ \A t1, t2 \in Threads :
                     (t1 # t2 /\ pc[t1] \in {"rot_close", "rot_open"})
                        => pc[t2] \notin InRolling
               /\ Len(rotations) <= ticks
               /\ \A i \in 1 .. Len(rotations) :
                     rotations[i].to.tm_mday # DayBefore(i)
               /\ IsOpen(m_pLogger)
                     => FileOf(m_pLogger).m_File.fd = DayFile(m_pLogger))
    /\ [][m_pLogger.type = "RollingFileLogger"
            => \A f \in DOMAIN disk' :
                  Content(disk', f) # Content(disk, f) => f = DayFile(m_pLogger)]_vars

\* the old day's file holds a message, and a thread writes to the new day's
\* file after a rotation while the other thread waits for the sink's mutex
C3_Witness ==
    /\ m_pLogger.type = "RollingFileLogger"
    /\ Len(rotations) = 1 /\ rotations[1].ok
    /\ m_pLogger.m_LastCreatedTime = Today
    /\ \E f \in DOMAIN disk : f # DayFile(m_pLogger)
    /\ \E t1, t2 \in Threads :
          t1 # t2 /\ pc[t1] = "writing" /\ pc[t2] = "lock"

\* every head in seq is followed at once by its own tail, but for a last head
\* whose thread is still writing; every tail follows its own head
Framed(seq) ==
    \A i \in 1 .. Len(seq) :
        IF seq[i].part = "head"
        THEN IF i < Len(seq)
             THEN seq[i + 1] = [seq[i] EXCEPT !.part = "tail"]
             ELSE seq[i].t \in writing
        ELSE i > 1 /\ seq[i - 1] = [seq[i] EXCEPT !.part = "head"]

\* C4 (SpecMT): for threads emitting into one File sink as
\* createLoggerInterface makes it (thread safe), a thread inside writeLog
\* holds the sink's mutex, so at most one thread is there; the file followed
\* by the stream buffer is a sequence of complete messages, none inside
\* another; and the increment of pending adds one to the value pending has
\* at the moment of the write.
C4_WritesTotallyOrdered ==
    /\ [](m_pLogger.type = "FileLogger"
            => /\ \A t \in Threads :
                     pc[t] \in InWriteLog \cup {"unlock"} => m_Mutex.sink = t
               /\ Cardinality({t \in Threads : pc[t] \in InWriteLog}) <= 1
               /\ writing \subseteq {t \in Threads : pc[t] = "writing"}
               /\ Framed(Content(disk, m_pLogger.m_File.fd) \o Buffered(m_pLogger))
               /\ \A t \in Threads :
                     pc[t] = "inc_write" => arg[t].tmp = Pending(m_pLogger))
    /\ [][(m_pLogger.type = "FileLogger"
             /\ \E t \in Threads : pc[t] = "inc_write" /\ pc'[t] = "flush")
            => Pending(m_pLogger') = Pending(m_pLogger) + 1]_vars

\* a thread is between the two halves of its message while the other thread
\* waits for the sink's mutex
C4_Witness ==
    /\ m_pLogger.type = "FileLogger"
    /\ \E t1, t2 \in Threads :
          /\ t1 # t2
          /\ pc[t1] = "writing" /\ pc[t2] = "lock"
          /\ Heads(Buffered(m_pLogger)) = 1

\* C9 (SpecMTC): no thread is inside close() of a File or Rolling sink while
\* another thread is inside writeLog of an emit on the same sink.
C9_CloseExcludesWrite ==
    \A t1, t2 \in Threads :
        (t1 # t2 /\ pc[t1] \in InClose) => pc[t2] \notin InWriteLog

----------------------------------------------------------------------------
(* Claims about the content of files, the level and the batch size *)

\* what sink s has appended to its file on disk d: the file's content, then what the
\* stream still buffers
Appended(s, d) == Content(d, getFullFileName(FileOf(s))) \o Buffered(s)

\* C11 (Spec): for a File sink and steps without I/O errors, an emit that
\* returns true appends exactly its message, verbatim, after everything
\* appended before; an emit that returns false (gated, or no open handle)
\* appends nothing; open(), close() and the clock change nothing of what was
\* appended, so a re-opened file keeps its earlier content.
C11_FileHoldsSuccessfulEmits ==
    [][m_pLogger.type = "FileLogger"
         => /\ \A msg \in Msgs, level \in Levels, env \in Envs :
                  Log(msg, level, env, FALSE)
                     => Appended(m_pLogger', disk') =
                           IF last'.ret THEN Appended(m_pLogger, disk) \o <<msg>>
                           ELSE Appended(m_pLogger, disk)
            /\ last'.op \in {"open", "close", "tick"}
                  => Appended(m_pLogger', disk') = Appended(m_pLogger, disk)
            /\ \A f \in DOMAIN disk' : f = getFullFileName(m_pLogger)]_vars

\* a File sink whose file already holds a message has been opened again
C11_Witness ==
    /\ m_pLogger.type = "FileLogger"
    /\ last.op = "open" /\ last.ret
    /\ IsOpen(m_pLogger)
    /\ Len(Content(disk, getFullFileName(m_pLogger))) >= 1

\* the options LogSys::LogSys configures its sink with
ConfOf(cf) == IF cf.path = <<>> THEN EmptyConf ELSE cf.conf

\* C12 (SpecSys): the level of the installed sink is DEBUG, INFO, WARNING or
\* ERROR in every state; a sink is installed with the log_level of its
\* configuration when that is below MAX and with INFO otherwise; setLevel
\* with a level of MAX or above changes nothing, with a valid level it sets
\* the sink's level; and an emit is gated on the level the sink has then:
\* below it the emit returns false, at or above it logImpl runs.
C12_LevelStaysValid ==
    /\ [](/\ Sink # NULL => Sink.m_Level \in Levels
          /\ \A cf \in ConfigFiles, garbage \in UninitTm(now), env \in Envs :
                LET r == LogSys_initialize(NULL, cf, World, now, garbage, env) IN
                r.sys # NULL
                   => r.sys.m_pLogger.m_Level =
                         IF TEXT_LOG_LEVEL \in DOMAIN ConfOf(cf)
                            /\ ConfOf(cf)[TEXT_LOG_LEVEL] < LOG_LEVEL_MAX
                         THEN ConfOf(cf)[TEXT_LOG_LEVEL]
                         ELSE LOG_LEVEL_INFO)
    /\ [][/\ last'.op = "setLevel"
                => \A level \in SetLevels :
                      SetLevel(level)
                         => /\ level >= LOG_LEVEL_MAX => s_pLogSys' = s_pLogSys
                            /\ level < LOG_LEVEL_MAX
                                  => s_pLogSys' = [s_pLogSys EXCEPT
                                                     !.m_pLogger.m_Level = level]
          /\ last'.op = "log"
                => \A msg \in Msgs, level \in Levels :
                   \A env \in EnvsRead(Sink, level),
                      ioerr \in ErrsRead(Sink, level) :
                      LOG_OUT(msg, level, env, ioerr)
                         => IF level >= Sink.m_Level
                            THEN LET l == logImpl(Sink, World, now, msg, env, ioerr)
                                 IN /\ s_pLogSys'.m_pLogger = l.this
                                    /\ last'.ret = l.ret
                                    /\ disk' = l.w.disk /\ errout' = l.w.errout
                            ELSE ~last'.ret /\ s_pLogSys' = s_pLogSys]_vars

\* a sink configured with a log_level of MAX or above (and so installed with
\* INFO) has had its level set to DEBUG
C12_Witness ==
    /\ Sink # NULL
    /\ last.op = "setLevel"
    /\ Sink.m_MaxFlushNum = 0
    /\ Sink.m_Level = LOG_LEVEL_DEBUG

\* YYYY-MM-DD of a struct tm whose year has four digits
DateText(tm) ==
    LET y == tm.tm_year + 1900
        m == tm.tm_mon + 1
        d == tm.tm_mday
    IN <<DigitChar(y \div 1000), DigitChar((y \div 100) % 10),
         DigitChar((y \div 10) % 10), DigitChar(y % 10), "-",
         DigitChar(m \div 10), DigitChar(m % 10), "-",
         DigitChar(d \div 10), DigitChar(d % 10)>>

\* the file <path>/<base_name>-YYYY-MM-DD[.<suffix>] of Rolling sink s, with
\* the date s.m_LastCreatedTime
NameOfDay(s) ==
    getFullFileName([m_FilePath     |-> s.m_FilePath,
                     m_FileBaseName |-> s.m_FileBaseName \o <<"-">>
                                           \o DateText(s.m_LastCreatedTime),
                     m_FileSuffix   |-> s.m_FileSuffix])

\* C13 (Spec): whenever a Rolling sink has an open handle, the handle is of
\* the file named base_name-YYYY-MM-DD with the date in m_LastCreatedTime;
\* a step that changes m_LastCreatedTime or the name of the open file is an
\* open() or an emit that rotates, and it sets m_LastCreatedTime to the day
\* of the clock.
C13_OpenNameIsLastOpenedDay ==
    /\ [](m_pLogger.type = "RollingFileLogger" /\ IsOpen(m_pLogger)
            => /\ FileOf(m_pLogger).m_File.fd = NameOfDay(m_pLogger)
               /\ handles = <<NameOfDay(m_pLogger)>>)
    /\ [][m_pLogger.type = "RollingFileLogger"
            => IF last'.op = "open" \/ (last'.op = "log" /\ last'.rot # "none")
               THEN m_pLogger'.m_LastCreatedTime = Today
               ELSE /\ m_pLogger'.m_LastCreatedTime = m_pLogger.m_LastCreatedTime
                    /\ IsOpen(m_pLogger')
                          => /\ IsOpen(m_pLogger)
                             /\ FileOf(m_pLogger').m_File.fd
                                   = FileOf(m_pLogger).m_File.fd]_vars

\* a Rolling sink has rotated to a day in January and holds that day's file
C13_Witness ==
    /\ m_pLogger.type = "RollingFileLogger"
    /\ IsOpen(m_pLogger)
    /\ last.op = "log" /\ last.rot = "ok"
    /\ m_pLogger.m_LastCreatedTime.tm_mon = 0
    /\ m_pLogger.m_LastCreatedTime = Today

\* the name of the file sink s has open
OpenFile(s) == FileOf(s).m_File.fd

\* C14 (Spec): an emit of a Rolling sink that rotates leaves in the previous
\* day's file everything written to it, what was buffered included whatever
\* pending was, and nothing more; the new inner sink counts from 0, so
\* after the emit pending is 0 (failed rotation, or a flush) or 1; and in
\* every step a file grows only if the sink has it open before or after the
\* step, so the previous day's file gets nothing after the rotation.
C14_RotationFlushesOldFile ==
    [][m_pLogger.type = "RollingFileLogger"
         => /\ (last'.op = "log" /\ last'.rot # "none")
                  => /\ IsOpen(m_pLogger)
                           => /\ \A i \in 1 .. Len(handles') :
                                    handles'[i] # OpenFile(m_pLogger)
                              /\ Content(disk', OpenFile(m_pLogger))
                                    = Content(disk, OpenFile(m_pLogger))
                                         \o Buffered(m_pLogger)
                     /\ last'.rot = "failed"
                           => /\ ~IsOpen(m_pLogger')
                              /\ Pending(m_pLogger') = 0
                     /\ last'.rot = "ok"
                           => /\ IsOpen(m_pLogger')
                              /\ Pending(m_pLogger') =
                                    IF MaxUnflushed(m_pLogger') <= 1 THEN 0 ELSE 1
                              /\ Len(Content(disk', OpenFile(m_pLogger')))
                                    + Len(Buffered(m_pLogger'))
                                    = Len(Content(disk, OpenFile(m_pLogger')))
                                         + (IF last'.ret THEN 1 ELSE 0)
            /\ \A f \in DOMAIN disk' :
                  Content(disk', f) # Content(disk, f)
                     => \/ IsOpen(m_pLogger) /\ f = OpenFile(m_pLogger)
                        \/ IsOpen(m_pLogger') /\ f = OpenFile(m_pLogger')]_vars

\* a rotation has flushed a message that was buffered, with pending 1 of 2,
\* to the previous day's file, and the emit's message is buffered for the new
C14_Witness ==
    /\ m_pLogger.type = "RollingFileLogger"
    /\ last.op = "log" /\ last.rot = "ok" /\ last.ret
    /\ MaxUnflushed(m_pLogger) = 2
    /\ Pending(m_pLogger) = 1
    /\ Len(Buffered(m_pLogger)) = 1
    /\ \E f \in DOMAIN disk : f # OpenFile(m_pLogger) /\ Len(disk[f]) = 1

\* C15 (SpecSys): the sink installed by an init, configured from its file,
\* has a batch size m_MaxFlushNum of at least 1, in every state.
C15_MaxUnflushedAtLeastOne ==
    Sink # NULL => Sink.m_MaxFlushNum >= 1

\* C16 (Spec): an emit on a File sink with no open handle returns false and
\* changes nothing: not the sink (pending included), not a file, not the
\* handles; the sink has no open handle after any step but an open(), and
\* after an open() it has one exactly when that open() returned true.
C16_ClosedFileSinkRejects ==
    [][(m_pLogger.type = "FileLogger" /\ ~IsOpen(m_pLogger))
         => /\ last'.op = "log"
                  => /\ ~last'.ret
                     /\ m_pLogger' = m_pLogger
                     /\ disk' = disk /\ handles' = handles /\ errout' = errout
            /\ last'.op # "open" => ~IsOpen(m_pLogger')
            /\ last'.op = "open" => IsOpen(m_pLogger') = last'.ret]_vars

\* an emit above the level gate has returned false on a File sink that has
\* no open handle since the system refused to open its file
C16_Witness ==
    /\ m_pLogger.type = "FileLogger"
    /\ last.op = "log" /\ last.admitted /\ ~last.ret
    /\ ~IsOpen(m_pLogger)
    /\ m_pLogger.m_File.failbit

\* the calendar date of a struct tm
DateOf(tm) == [year |-> tm.tm_year + 1900, mon |-> tm.tm_mon + 1,
               mday |-> tm.tm_mday]

\* the last day of month m of year y
LastDay(y, m) == [year |-> y, mon |-> m, mday |-> DaysInMonth(y, m)]

\* C17 (Spec): an emit above the gate on an open Rolling sink whose
\* m_LastCreatedTime is the day before the clock's day rotates; and the day
\* after the clock's day, and the day after the last day of any month of
\* 2023 (not a leap year) and 2024 (a leap year), has another day of month.
C17_RotatesOnNextDay ==
    /\ [](/\ getCurrentDate(AddDays(now, 1)).tm_mday # Today.tm_mday
          /\ \A y \in {2023, 2024}, m \in 1 .. 12 :
                getCurrentDate(AddDays(LastDay(y, m), 1)).tm_mday
                   # getCurrentDate(LastDay(y, m)).tm_mday)
    /\ [][(/\ m_pLogger.type = "RollingFileLogger"
           /\ IsOpen(m_pLogger)
           /\ now = AddDays(DateOf(m_pLogger.m_LastCreatedTime), 1)
           /\ last'.op = "log" /\ last'.admitted)
            => /\ last'.rot # "none"
               /\ m_pLogger'.m_LastCreatedTime = Today]_vars

\* a Rolling sink opened on 31 December has rotated on 1 January
C17_Witness ==
    /\ m_pLogger.type = "RollingFileLogger"
    /\ last.op = "log" /\ last.admitted /\ last.rot = "ok"
    /\ ticks = 1
    /\ now = AddDays(StartDate, 1)
    /\ m_pLogger.m_LastCreatedTime = Today
    /\ Today.tm_mday = 1 /\ Today.tm_mon = 0

----------------------------------------------------------------------------
(* SpecMTLive: SpecMT under a fair scheduler: a thread inside an emit takes *)
(* its next step when it can (weak fairness), and a thread that waits for   *)
(* the mutex gets it if the mutex is free again and again (strong fairness: *)
(* without it a thread that emits over and over can take the mutex each     *)
(* time, and the waiting thread starves)                                    *)

\* the steps of an emit after log(msg, level) was called
Continue(t) ==
    \/ Lock(t)
    \/ DayCheck(t)
    \/ RotClose(t)
    \/ \E env \in Envs : RotOpen(t, env)
    \/ Inner(t)
    \/ Check(t)
    \/ \E ioerr \in BOOLEAN : WriteBegin(t, ioerr)
    \/ WriteEnd(t)
    \/ IncRead(t)
    \/ IncWrite(t)
    \/ Flush(t)
    \/ Unlock(t)

SpecMTLive ==
    /\ InitMT /\ [][NextMT]_vars
    /\ \A t \in Threads : WF_vars(Continue(t)) /\ SF_vars(Lock(t))

C19_RetriesOpenOnNextDayOnly ==
    [][m_pLogger.type = "RollingFileLogger"
         => /\ last'.op = "open" => m_pLogger'.m_LastCreatedTime = Today
            /\ (/\ FileOf(m_pLogger) # NULL
                /\ ~IsOpen(m_pLogger)
                /\ FileOf(m_pLogger).m_File.failbit
                /\ last'.op = "log" /\ last'.admitted)
                  => IF DateOf(m_pLogger.m_LastCreatedTime) = now
                     THEN /\ last'.rot = "none" /\ ~last'.ret
                          /\ m_pLogger' = m_pLogger /\ handles' = handles
                     ELSE last'.rot # "none"]_vars

\* C20 (SpecSys): on an open Rolling sink with a good stream, setLevel(L)
\* with a valid L makes L the sink's level and leaves the inner FileLogger,
\* with the level it was created with, as it is; an emit that needs no
\* rotation is written (or fails in the stream) exactly when its level is at
\* least the sink's own current level, and otherwise returns false and
\* changes nothing, whatever level the inner FileLogger holds.
C20_GateIsOwnCurrentLevel ==
    [][(/\ Sink # NULL
        /\ Sink.type = "RollingFileLogger"
        /\ IsOpen(Sink)
        /\ ~FileOf(Sink).m_File.badbit)
         => /\ \A L \in LOG_LEVEL_DEBUG .. LOG_LEVEL_ERROR :
                   SetLevel(L) => /\ s_pLogSys'.m_pLogger.m_Level = L
                                  /\ FileOf(s_pLogSys'.m_pLogger) = FileOf(Sink)
            /\ (last'.op = "log" /\ ~DayPassed(Sink, Today))
                  => IF last'.level >= Sink.m_Level
                     THEN \/ /\ last'.ret
                             /\ Len(Appended(s_pLogSys'.m_pLogger, disk'))
                                   = Len(Appended(Sink, disk)) + 1
                          \/ /\ ~last'.ret
                             /\ FileOf(s_pLogSys'.m_pLogger).m_File.badbit
                     ELSE /\ ~last'.ret
                          /\ UNCHANGED <<s_pLogSys, disk, handles, errout>>]_vars

\* an emit below the level the inner FileLogger was created with is written
\* after the level of the Rolling sink was lowered
C20_Witness ==
    /\ Sink # NULL
    /\ Sink.type = "RollingFileLogger"
    /\ IsOpen(Sink)
    /\ Sink.m_Level < FileOf(Sink).m_Level
    /\ last.op = "log" /\ last.ret /\ last.rot = "none"
    /\ last.level < FileOf(Sink).m_Level

=============================================================================
